---- MODULE Spec2Model ----
(***************************************************************************)
(* Driver layer of aiolibsql (src/src/lib.rs): one physical connection     *)
(* behind a tokio Mutex, cursors that share it, the execution pipeline     *)
(* execute_async, the transaction policy and the fetch operations.         *)
(*                                                                         *)
(* Every asynchronous operation is a task that moves through program       *)
(* points (pc).  A step is the code between two suspension points; a       *)
(* lock().await is a step that is enabled only while the mutex is free.    *)
(* The storage engine is an external collaborator: whether a call          *)
(* succeeds, how many rows a query has, and which change count and row id  *)
(* it reports are chosen nondeterministically.                             *)
(***************************************************************************)
EXTENDS Integers, Sequences, FiniteSets, TLC

\* ------------------------------------------------------------------ bounds
NumTasks == 2        \* operations that can be in flight at once
NumCursors == 2      \* Cursor objects created from the Connection
MaxOps == 2          \* operations started when callers overlap them
MaxSeqOps == 3       \* operations started when the caller awaits each
MaxRows == 2         \* rows in a query's result set
MaxParamSets == 2    \* parameter sets given to executemany
MaxSize == 2         \* largest size given to fetchmany
MaxChanges == 1      \* largest change count the engine reports
MaxRowid == 2        \* largest row id the engine reports

\* ------------------------------------------------------- program constants
LEGACY_TRANSACTION_CONTROL == -1
ARRAYSIZE_DEFAULT == 1

Tasks == 1..NumTasks
Cursors == 1..NumCursors
NoTask == 0

\* --------------------------------------------------------------- SQL text
\* SQL text is a sequence of one-character strings, so that trim,
\* to_uppercase and starts_with are computed and not assumed.
WhiteSpace == {" ", "\t", "\n"}
LowerCase == <<"a","b","c","d","e","f","g","h","i","j","k","l","m",
               "n","o","p","q","r","s","t","u","v","w","x","y","z">>
UpperCase == <<"A","B","C","D","E","F","G","H","I","J","K","L","M",
               "N","O","P","Q","R","S","T","U","V","W","X","Y","Z">>

RECURSIVE trim_start(_)
trim_start(s) ==
    IF s # <<>> /\ Head(s) \in WhiteSpace THEN trim_start(Tail(s)) ELSE s

RECURSIVE trim_end(_)
trim_end(s) ==
    IF s # <<>> /\ s[Len(s)] \in WhiteSpace
    THEN trim_end(SubSeq(s, 1, Len(s) - 1)) ELSE s

trim(s) == trim_end(trim_start(s))

upper_char(c) ==
    IF \E k \in 1..26 : LowerCase[k] = c
    THEN UpperCase[CHOOSE k \in 1..26 : LowerCase[k] = c]
    ELSE c

to_uppercase(s) == [k \in 1..Len(s) |-> upper_char(s[k])]

starts_with(s, p) == Len(s) >= Len(p) /\ SubSeq(s, 1, Len(p)) = p

KwInsert == <<"I","N","S","E","R","T">>
KwUpdate == <<"U","P","D","A","T","E">>
KwDelete == <<"D","E","L","E","T","E">>
KwReplace == <<"R","E","P","L","A","C","E">>

\* The statements callers submit.  "columns" is what the engine's
\* Statement.column_count() reports for the text, "writes" whether the
\* engine changes data (and so its change count and row id) when it runs.
InsertStmt ==
    [text |-> <<" ","i","n","s","e","r","t"," ","t","\n">>,
     columns |-> 0, writes |-> TRUE]
SelectStmt ==
    [text |-> <<"S","E","L","E","C","T"," ","1">>,
     columns |-> 1, writes |-> FALSE]
WithInsertStmt ==
    [text |-> <<"w","i","t","h"," ","c"," ","I","N","S","E","R","T">>,
     columns |-> 0, writes |-> TRUE]
ReplaceReturningStmt ==
    [text |-> <<"R","e","p","l","a","c","e"," ","r","e","t">>,
     columns |-> 1, writes |-> TRUE]

SqlTexts == <<InsertStmt, SelectStmt, WithInsertStmt, ReplaceReturningStmt>>

SqlIds == 1..Len(SqlTexts)
SqlInsert == CHOOSE k \in SqlIds : SqlTexts[k] = InsertStmt
SqlSelect == CHOOSE k \in SqlIds : SqlTexts[k] = SelectStmt
sql_text(k) == SqlTexts[k].text

\* Statement::column_count() of the prepared statement.
column_count(k) == SqlTexts[k].columns

\* ------------------------------------------------------ transaction policy
\* Fault variant: the keyword is looked for anywhere in the text.
stmt_is_dml_contains(sql) ==
    LET s == to_uppercase(trim(sql))
    IN  \E k \in 1..Len(s) :
            LET r == SubSeq(s, k, Len(s))
            IN  starts_with(r, KwInsert) \/ starts_with(r, KwUpdate)
                \/ starts_with(r, KwDelete) \/ starts_with(r, KwReplace)

\* let s = sql.trim().to_uppercase(); s.starts_with("INSERT") || ...
stmt_is_dml(sql) ==
    LET s == to_uppercase(trim(sql))
    IN  starts_with(s, KwInsert) \/ starts_with(s, KwUpdate)
        \/ starts_with(s, KwDelete) \/ starts_with(s, KwReplace)

\* Fault variant: an explicit mode is not looked at.
determine_autocommit_by_isolation(ac, isolation) == isolation = "None"

\* match autocommit { LEGACY_TRANSACTION_CONTROL => isolation_level.is_none(),
\*                    _ => autocommit != 0 }
determine_autocommit(ac, isolation) ==
    IF ac = LEGACY_TRANSACTION_CONTROL THEN isolation = "None" ELSE ac # 0

\* connect(): the autocommit value stored in the Connection.
connect_autocommit(mode, isolation) ==
    IF mode = LEGACY_TRANSACTION_CONTROL
    THEN (IF isolation = "None" THEN 1 ELSE 0)
    ELSE mode

Modes == {LEGACY_TRANSACTION_CONTROL, 0, 1, 2}
IsolationLevels == {"None", "DEFERRED"}


\* ------------------------------------------------------------------ state
VARIABLES
    conn,             \* Option<libsql Connection>: TRUE = Some, FALSE = None
    connLock,         \* owner of Mutex<Option<Connection>>, or NoTask
    stmtLock,         \* per cursor: owner of the stmt mutex, or NoTask
    rowsLock,         \* per cursor: owner of the rows mutex, or NoTask
    cursor,           \* per cursor: stmt, rows, done, rowcount, lastrowid
    task,             \* per task: program point, arguments, locals, result
    inTx,             \* engine: a transaction is open (~is_autocommit())
    engChanges,       \* engine: Connection::changes()
    engRowid,         \* engine: Connection::last_insert_rowid()
    autocommit,       \* Connection.autocommit, copied into every Cursor
    isolation_level,  \* Connection.isolation_level, copied likewise
    ops,              \* operations started so far
    gil,              \* owner of the interpreter lock while it blocks, or NoTask
    caller            \* the calling thread: the getter it is inside, if any

vars == <<conn, connLock, stmtLock, rowsLock, cursor, task, inTx,
          engChanges, engRowid, autocommit, isolation_level, ops, gil, caller>>

\* A prepared statement handle: the text it was prepared from and the
\* identity of the handle (every prepare() yields a new object).
NoStmt == [sql |-> 0, id |-> 0]
\* A result set handle: the statement that produced it, its n rows and how
\* many of them have been read.
NoRows == [stmt |-> 0, n |-> 0, pos |-> 0]

\* What execute_async read back after the statement it last ran to the end
\* on a cursor (history, not a field of Cursor).
NoRun == [c |-> 0, r |-> 0]

\* Connection.cursor()
NewCursor == [stmt |-> NoStmt, rows |-> NoRows, done |-> FALSE,
              rowcount |-> 0, lastrowid |-> 0, ran |-> NoRun]

\* A task that runs nothing.  began: this execute_async issued BEGIN.
\* log: the (parameter set, changes, row id) of every statement the
\* operation has run.  res, data, reads: the outcome handed to the caller
\* and the number of Rows::next() calls the operation made.  issued: the
\* statement commit, rollback or __aexit__ sent to the engine, the call
\* connect() made to open its database, "drop" for a close that released
\* the handle.  suppress:
\* the value __aexit__ resolves to.  cfg: the arguments of a connect().
NoConfig == [remote |-> FALSE, sync_url |-> FALSE, encryption_key |-> FALSE]

IdleTask == [pc |-> "idle", op |-> "none", cur |-> 0, sql |-> 0,
             plist |-> <<>>, i |-> 0, tc |-> 0, lr |-> 0, stmt |-> NoStmt,
             began |-> FALSE, log |-> <<>>, size |-> 0, is_error |-> FALSE,
             res |-> "none", data |-> <<>>, reads |-> 0,
             issued |-> "none", suppress |-> FALSE, cfg |-> NoConfig]

HandleIds == 1..(2 * NumCursors + NumTasks + 1)

UsedIds ==
    {cursor[c].stmt.id : c \in Cursors} \cup {cursor[c].rows.stmt : c \in Cursors}
    \cup {task[t].stmt.id : t \in Tasks}

\* The identity of the next handle prepare() returns: one that no live
\* handle has.
FreshId ==
    CHOOSE k \in HandleIds :
        k \notin UsedIds /\ \A j \in HandleIds : j < k => j \in UsedIds

\* The thread that calls into the module.  It holds the interpreter lock
\* while it is inside a synchronous method and gives it up between calls.
MainThread == NumTasks + 1

InPython == [pc |-> "python", cur |-> 0]

\* The state connect() leaves, for the autocommit modes and isolation
\* levels it is given, with NumCursors cursors obtained from the connection.
Connected(modes, isolations) ==
    /\ conn = TRUE
    /\ connLock = NoTask
    /\ stmtLock = [c \in Cursors |-> NoTask]
    /\ rowsLock = [c \in Cursors |-> NoTask]
    /\ cursor = [c \in Cursors |-> NewCursor]
    /\ task = [t \in Tasks |-> IdleTask]
    /\ inTx = FALSE
    /\ engChanges = 0
    /\ engRowid = 0
    /\ \E mode \in modes, iso \in isolations :
          /\ autocommit = connect_autocommit(mode, iso)
          /\ isolation_level = iso
    /\ ops = 0
    /\ gil = NoTask
    /\ caller = InPython

Init == Connected(Modes, IsolationLevels)

\* ------------------------------------------------------------------ mutex
\* Fault variant: a lock that never makes its caller wait.
mutex_free_always(lock) == TRUE

\* tokio Mutex::lock().await completes only while nobody holds the mutex.
mutex_free(lock) == lock = NoTask

\* Fault variant: a guard is released on the success path only.
guard_kept_on_error(holder, failed) == IF failed THEN holder ELSE NoTask

\* A guard is a local of the async block: it is dropped when the block is
\* left, by its last expression or by a ?.  The holder of the mutex then.
guard_dropped(holder, failed) == NoTask

\* -------------------------------------------------------------- the calls
Running(t) == task[t].pc \notin {"idle", "done"}

\* What the callers of one specification do: the cursors and statements
\* they use, the sizes of their parameter lists and batches, how many
\* operations they have in flight at once and how many they start.
Workload(cs, ss, ks, ns, inflight, budget) ==
    [cursors |-> cs, sqls |-> ss, ksets |-> ks, sizes |-> ns,
     inflight |-> inflight, budget |-> budget]

\* A call creates a future; it takes the first task that runs nothing.
\* The calling thread makes it, so it is not asleep inside a getter.
Begin(t, w, fields) ==
    /\ caller.pc = "python"
    /\ ~Running(t)
    /\ \A u \in Tasks : u < t => Running(u)
    /\ Cardinality({u \in Tasks : Running(u)}) < w.inflight
    /\ ops < w.budget
    /\ ops' = ops + 1
    /\ task' = [task EXCEPT ![t] = fields]
    /\ UNCHANGED <<gil, caller, conn, connLock, stmtLock, rowsLock, cursor, inTx,
                   engChanges, engRowid, autocommit, isolation_level>>

ParamList(k) == [j \in 1..k |-> j]

\* The future of a call: where it starts and what it was given.
NewTask(pc, op, c, s, plist, size, is_error) ==
    [IdleTask EXCEPT !.pc = pc, !.op = op, !.cur = c, !.sql = s,
                     !.plist = plist, !.size = size, !.is_error = is_error]

CallExecute(t, w) ==
    \E c \in w.cursors, s \in w.sqls :
        Begin(t, w, NewTask("ea_lock", "execute", c, s, ParamList(1), 0, FALSE))

\* for p in p_list: an empty list goes straight to the stores
CallExecutemany(t, w) ==
    \E c \in w.cursors, s \in w.sqls, k \in w.ksets :
        Begin(t, w, NewTask(IF k = 0 THEN "store_rc" ELSE "ea_lock",
                            "executemany", c, s, ParamList(k), 0, FALSE))

CallExecutescript(t, w) ==
    \E c \in w.cursors :
        Begin(t, w, NewTask("es_lock", "executescript", c, 0, <<>>, 0, FALSE))

CallCommit(t, w) ==
    Begin(t, w, NewTask("cm_lock", "commit", 0, 0, <<>>, 0, FALSE))

CallRollback(t, w) ==
    Begin(t, w, NewTask("cm_lock", "rollback", 0, 0, <<>>, 0, FALSE))

CallAexit(t, w) ==
    \E e \in BOOLEAN :
        Begin(t, w, NewTask("ax_lock", "aexit", 0, 0, <<>>, 0, e))

CallConnClose(t, w) ==
    Begin(t, w, NewTask("cl_lock", "conn_close", 0, 0, <<>>, 0, FALSE))

CallCursorClose(t, w) ==
    \E c \in w.cursors :
        Begin(t, w, NewTask("cc_conn", "cursor_close", c, 0, <<>>, 0, FALSE))

CallFetchone(t, w) ==
    \E c \in w.cursors :
        Begin(t, w, NewTask("fo_lock", "fetchone", c, 0, <<>>, 0, FALSE))

\* size = None is arraysize
CallFetchmany(t, w) ==
    \E c \in w.cursors, n \in w.sizes \cup {ARRAYSIZE_DEFAULT} :
        Begin(t, w, NewTask("fm_lock", "fetchmany", c, 0, <<>>, n, FALSE))

CallFetchall(t, w) ==
    \E c \in w.cursors :
        Begin(t, w, NewTask("fa_lock", "fetchall", c, 0, <<>>, 0, FALSE))

\* A parameter object that is neither a list nor a tuple.
NotListOrTuple == 0

\* ListOrTuple::extract_bound: Ok for a list or a tuple
extract_bound(p) == p # NotListOrTuple

\* Fault variant: the parameter sets are not looked at before the future
\* is made.
params_ok_lazy(plist) == TRUE

\* for p in ps.iter() { p_list.push(extract_parameters(py,
\*     Some(p.extract::<ListOrTuple>()?))?); }
params_ok(plist) == \A j \in 1..Len(plist) : extract_bound(plist[j])

\* The method raises before future_into_py: the caller has the error and
\* no future was made.  plist stays as history: what the caller passed.
Rejected(op, c, plist) ==
    [IdleTask EXCEPT !.pc = "done", !.op = op, !.cur = c, !.plist = plist,
                     !.res = "param_error"]

\* execute(sql, parameters) with parameters a list, a tuple or neither.
CallExecuteParams(t, w) ==
    \E c \in w.cursors, s \in w.sqls, p \in {NotListOrTuple, 1} :
        Begin(t, w, IF params_ok(<<p>>)
                    THEN NewTask("ea_lock", "execute", c, s, <<p>>, 0, FALSE)
                    ELSE Rejected("execute", c, <<p>>))

\* executemany(sql, parameters) with at most one of the parameter sets,
\* at any position, neither a list nor a tuple.
CallExecutemanyParams(t, w) ==
    \E c \in w.cursors, s \in w.sqls, k \in w.ksets : \E bad \in 0..k :
        LET plist == [j \in 1..k |-> IF j = bad THEN NotListOrTuple ELSE j] IN
        Begin(t, w, IF params_ok(plist)
                    THEN NewTask(IF k = 0 THEN "store_rc" ELSE "ea_lock",
                                 "executemany", c, s, plist, 0, FALSE)
                    ELSE Rejected("executemany", c, plist))

\* connect(database, sync_url, encryption_key, ...) of another database.
CallConnect(t, w) ==
    \E r, u, e \in BOOLEAN :
        Begin(t, w, [NewTask("cn_run", "connect", 0, 0, <<>>, 0, FALSE) EXCEPT
                        !.cfg = [remote |-> r, sync_url |-> u,
                                 encryption_key |-> e]])

\* The operation is over: its future resolves with the result, its locals
\* are gone.
Finish(t, result) ==
    [IdleTask EXCEPT !.pc = "done", !.op = task[t].op, !.cur = task[t].cur,
                     !.res = result]

\* Fault variant: the error of a statement is dropped and the operation
\* goes on to its stores.
store_despite_error(t, result) == [task[t] EXCEPT !.pc = "store_rc"]

\* execute_async(...).await?  The error ends the operation: the stores
\* that follow are not reached.  i and tc stay as history: how many
\* statements had run and what they had added up to when the error came.
propagate_error(t, result) ==
    [Finish(t, result) EXCEPT !.i = task[t].i, !.tc = task[t].tc]

\* ------------------------------------------- execute_async, step by step
\* let mut guard = conn_arc.lock().await;
EaLock(t) ==
    /\ task[t].pc = "ea_lock"
    /\ mutex_free(connLock)
    /\ connLock' = t
    /\ task' = [task EXCEPT ![t].pc = "ea_conn"]
    /\ UNCHANGED <<gil, caller, conn, stmtLock, rowsLock, cursor, inTx, engChanges,
                   engRowid, autocommit, isolation_level, ops>>

\* Fault variant: the absent handle is not checked for.
handle_present_always(h) == TRUE

\* guard.as_mut() is Some
handle_present(h) == h = TRUE

\* Fault variant: the engine's transaction state is not asked.
needs_begin_unchecked(ac, isolation, sql, open) ==
    ~determine_autocommit(ac, isolation) /\ stmt_is_dml(sql)

\* The condition of the implicit BEGIN; open is ~conn.is_autocommit().
needs_begin(ac, isolation, sql, open) ==
    ~determine_autocommit(ac, isolation) /\ stmt_is_dml(sql) /\ ~open

\* let conn = guard.as_mut().ok_or_else(Connection closed)?;
\* if ... { begin_transaction(conn).await?; }
\* let stmt = conn.prepare(&sql).await.map_err(to_py_err)?;
\* Runs under the connection guard alone; an error drops the guard.  The
\* engine refuses a BEGIN inside a transaction.
EaConn(t) ==
    LET begin == needs_begin(autocommit, isolation_level,
                             sql_text(task[t].sql), inTx)
    IN
    /\ task[t].pc = "ea_conn"
    /\ \/ /\ ~handle_present(conn)
          /\ task' = [task EXCEPT ![t] = propagate_error(t, "closed")]
          /\ connLock' = guard_dropped(t, TRUE)
          /\ UNCHANGED inTx
       \/ /\ handle_present(conn)
          /\ begin
          /\ \E okBegin \in (IF inTx THEN {FALSE} ELSE BOOLEAN),
                okPrepare \in BOOLEAN :
                /\ inTx' = (inTx \/ okBegin)
                /\ IF okBegin /\ okPrepare
                   THEN /\ task' = [task EXCEPT ![t].pc = "ea_stmt",
                                                ![t].began = TRUE,
                                                ![t].stmt = [sql |-> task[t].sql,
                                                             id |-> FreshId]]
                        /\ UNCHANGED connLock
                   ELSE /\ task' = [task EXCEPT ![t] =
                                       [propagate_error(t, "engine_error") EXCEPT !.began = TRUE]]
                        /\ connLock' = guard_dropped(t, TRUE)
       \/ /\ handle_present(conn)
          /\ ~begin
          /\ UNCHANGED inTx
          /\ \E okPrepare \in BOOLEAN :
                IF okPrepare
                THEN /\ task' = [task EXCEPT ![t].pc = "ea_stmt",
                                             ![t].began = FALSE,
                                             ![t].stmt = [sql |-> task[t].sql,
                                                          id |-> FreshId]]
                     /\ UNCHANGED connLock
                ELSE /\ task' = [task EXCEPT ![t] = propagate_error(t, "engine_error")]
                     /\ connLock' = guard_dropped(t, TRUE)
    /\ UNCHANGED <<gil, caller, conn, stmtLock, rowsLock, cursor, engChanges, engRowid,
                   autocommit, isolation_level, ops>>

\* let mut s_guard = stmt_arc.lock().await; *s_guard = Some(stmt);
EaStmt(t) ==
    LET c == task[t].cur IN
    /\ task[t].pc = "ea_stmt"
    /\ mutex_free(stmtLock[c])
    /\ stmtLock' = [stmtLock EXCEPT ![c] = t]
    /\ cursor' = [cursor EXCEPT ![c].stmt = task[t].stmt]
    /\ task' = [task EXCEPT ![t].pc = "ea_rows"]
    /\ UNCHANGED <<gil, caller, conn, connLock, rowsLock, inTx, engChanges, engRowid,
                   autocommit, isolation_level, ops>>

\* Fault variant: the total is overwritten, not added to.
accumulate_last(tc, c) == c

\* tc += c
accumulate(tc, c) == tc + c

\* lr = r
keep_last(lr, r) == r

\* What the caller does with the (changes, row id) execute_async returns:
\* execute stores them, executemany adds them up and goes to the next
\* parameter set, or to its stores after the last.
after_execute_async(tk, c, r) ==
    LET entry == [p |-> tk.plist[tk.i + 1], c |-> c, r |-> r] IN
    IF tk.op = "execute"
    THEN [tk EXCEPT !.pc = "store_rc", !.tc = c, !.lr = r, !.i = @ + 1,
                    !.log = Append(@, entry)]
    ELSE [tk EXCEPT !.pc = IF tk.i + 1 < Len(tk.plist) THEN "ea_lock" ELSE "store_rc",
                    !.tc = accumulate(@, c), !.lr = keep_last(@, r),
                    !.i = @ + 1, !.began = FALSE,
                    !.log = Append(@, entry)]

\* Fault variant: every statement is run as a query.
is_query_always(cols) == TRUE

\* if col_count > 0
is_query(cols) == cols > 0

\* let mut r_guard = rows_arc.lock().await;
\* if col_count > 0 { *r_guard = Some(s_ref.query(params).await?) }
\* else { s_ref.execute(params).await?; *r_guard = None }
\* Ok((conn.changes(), conn.last_insert_rowid())), and the three guards drop.
EaRun(t) ==
    LET c == task[t].cur
        s == task[t].sql
    IN
    /\ task[t].pc = "ea_rows"
    /\ mutex_free(rowsLock[c])
    /\ \E ok \in BOOLEAN :
          IF ok
          THEN /\ IF SqlTexts[s].writes
                  THEN /\ engChanges' \in 0..MaxChanges
                       /\ engRowid' \in 1..MaxRowid
                  ELSE UNCHANGED <<gil, caller, engChanges, engRowid>>
               /\ \E n \in 0..MaxRows :
                     cursor' = [cursor EXCEPT
                                   ![c].rows = IF is_query(column_count(s))
                                               THEN [stmt |-> task[t].stmt.id,
                                                     n |-> n, pos |-> 0]
                                               ELSE NoRows,
                                   ![c].ran = [c |-> engChanges', r |-> engRowid']]
               /\ task' = [task EXCEPT ![t] =
                              after_execute_async(task[t], engChanges', engRowid')]
               /\ connLock' = guard_dropped(t, FALSE)
               /\ stmtLock' = [stmtLock EXCEPT ![c] = guard_dropped(t, FALSE)]
          ELSE /\ task' = [task EXCEPT ![t] = propagate_error(t, "engine_error")]
               /\ connLock' = guard_dropped(t, TRUE)
               /\ stmtLock' = [stmtLock EXCEPT ![c] = guard_dropped(t, TRUE)]
               /\ UNCHANGED <<gil, caller, cursor, engChanges, engRowid>>
    /\ UNCHANGED <<gil, caller, conn, rowsLock, inTx, autocommit, isolation_level, ops>>

\* rc.store(c, SeqCst)
StoreRc(t) ==
    /\ task[t].pc = "store_rc"
    /\ cursor' = [cursor EXCEPT ![task[t].cur].rowcount = task[t].tc]
    /\ task' = [task EXCEPT ![t].pc = "store_rid"]
    /\ UNCHANGED <<gil, caller, conn, connLock, stmtLock, rowsLock, inTx, engChanges,
                   engRowid, autocommit, isolation_level, ops>>

\* rid.store(r, SeqCst); Ok(slf)
StoreRid(t) ==
    /\ task[t].pc = "store_rid"
    /\ cursor' = [cursor EXCEPT ![task[t].cur].lastrowid = task[t].lr]
    /\ task' = [task EXCEPT ![t] = Finish(t, "ok")]
    /\ UNCHANGED <<gil, caller, conn, connLock, stmtLock, rowsLock, inTx, engChanges,
                   engRowid, autocommit, isolation_level, ops>>

\* ------------------------------------ operations on the connection alone
\* let guard = conn_arc.lock().await;  (commit, rollback, executescript,
\* __aexit__, Connection.close)
ConnLock(t) ==
    /\ task[t].pc \in {"es_lock", "cm_lock", "ax_lock", "cl_lock"}
    /\ mutex_free(connLock)
    /\ connLock' = t
    /\ task' = [task EXCEPT ![t].pc =
                   CASE task[t].pc = "es_lock" -> "es_run"
                     [] task[t].pc = "cm_lock" -> "cm_run"
                     [] task[t].pc = "ax_lock" -> "ax_run"
                     [] task[t].pc = "cl_lock" -> "cl_run"]
    /\ UNCHANGED <<gil, caller, conn, stmtLock, rowsLock, cursor, inTx, engChanges,
                   engRowid, autocommit, isolation_level, ops>>

\* if let Some(conn) = guard.as_ref() { conn.execute_batch(&script).await? }
\* Ok(slf).  A script may open or end a transaction and change data.
EsRun(t) ==
    /\ task[t].pc = "es_run"
    /\ IF handle_present(conn)
       THEN \E ok \in BOOLEAN :
               IF ok
               THEN /\ inTx' \in BOOLEAN
                    /\ engChanges' \in 0..MaxChanges
                    /\ engRowid' \in {engRowid} \cup 1..MaxRowid
                    /\ task' = [task EXCEPT ![t] = Finish(t, "ok")]
               ELSE /\ task' = [task EXCEPT ![t] = Finish(t, "engine_error")]
                    /\ UNCHANGED <<gil, caller, inTx, engChanges, engRowid>>
       ELSE /\ task' = [task EXCEPT ![t] = Finish(t, "ok")]
            /\ UNCHANGED <<gil, caller, inTx, engChanges, engRowid>>
    /\ connLock' = NoTask
    /\ UNCHANGED <<gil, caller, conn, stmtLock, rowsLock, cursor, autocommit,
                   isolation_level, ops>>

\* Fault variant: the engine's transaction state is not asked.
ends_transaction_unchecked(present, open) == present

\* if let Some(conn) = guard.as_ref() { if !conn.is_autocommit() { ... } }
ends_transaction(present, open) == present /\ open

\* The statement commit() and rollback() send.
end_statement(op) == IF op = "commit" THEN "COMMIT" ELSE "ROLLBACK"

\* if let Some(conn) = guard.as_ref() {
\*   if !conn.is_autocommit() { conn.execute("COMMIT" | "ROLLBACK").await? } }
\* Ok(())
\* The engine refuses a COMMIT or ROLLBACK outside a transaction.
CmRun(t) ==
    /\ task[t].pc = "cm_run"
    /\ IF ends_transaction(handle_present(conn), inTx)
       THEN \E ok \in (IF inTx THEN BOOLEAN ELSE {FALSE}) :
               IF ok
               THEN /\ inTx' = FALSE
                    /\ task' = [task EXCEPT ![t] =
                                   [Finish(t, "ok") EXCEPT
                                       !.issued = end_statement(task[t].op)]]
               ELSE /\ task' = [task EXCEPT ![t] =
                                   [Finish(t, "engine_error") EXCEPT
                                       !.issued = end_statement(task[t].op)]]
                    /\ UNCHANGED inTx
       ELSE /\ task' = [task EXCEPT ![t] = Finish(t, "ok")]
            /\ UNCHANGED inTx
    /\ connLock' = NoTask
    /\ UNCHANGED <<gil, caller, conn, stmtLock, rowsLock, cursor, engChanges, engRowid,
                   autocommit, isolation_level, ops>>

\* Fault variant: the propagating error is not looked at.
exit_statement_commit(is_error) == "COMMIT"

\* if is_error { ROLLBACK } else { COMMIT }
exit_statement(is_error) == IF is_error THEN "ROLLBACK" ELSE "COMMIT"

\* __aexit__: as commit/rollback by is_error, with `let _ =` on the result;
\* Ok(false)
AxRun(t) ==
    /\ task[t].pc = "ax_run"
    /\ IF ends_transaction(handle_present(conn), inTx)
       THEN /\ \E ok \in (IF inTx THEN BOOLEAN ELSE {FALSE}) : inTx' = (inTx /\ ~ok)
            /\ task' = [task EXCEPT ![t] =
                           [Finish(t, "ok") EXCEPT
                               !.issued = exit_statement(task[t].is_error),
                               !.suppress = FALSE]]
       ELSE /\ UNCHANGED inTx
            /\ task' = [task EXCEPT ![t] =
                           [Finish(t, "ok") EXCEPT !.suppress = FALSE]]
    /\ connLock' = NoTask
    /\ UNCHANGED <<gil, caller, conn, stmtLock, rowsLock, cursor, engChanges, engRowid,
                   autocommit, isolation_level, ops>>

\* Fault variant: the handle is looked at and left in its slot.
take_handle_keep(h) == h

\* Option::take: what the slot holds afterwards
take_handle(h) == FALSE

\* Connection.close: if let Some(c) = conn_arc.lock().await.take() { drop(c) }
\* Dropping the handle ends whatever transaction it had open.
ClRun(t) ==
    /\ task[t].pc = "cl_run"
    /\ conn' = take_handle(conn)
    /\ inTx' = (inTx /\ conn')
    /\ connLock' = NoTask
    /\ task' = [task EXCEPT ![t] =
                   [Finish(t, "ok") EXCEPT
                       !.issued = IF handle_present(conn) THEN "drop" ELSE "none"]]
    /\ UNCHANGED <<gil, caller, stmtLock, rowsLock, cursor, engChanges, engRowid,
                   autocommit, isolation_level, ops>>

\* Cursor.close: c.lock().await.take();
CcConn(t) ==
    /\ task[t].pc = "cc_conn"
    /\ mutex_free(connLock)
    /\ connLock' = t
    /\ task' = [task EXCEPT ![t].pc = "cc_take"]
    /\ UNCHANGED <<gil, caller, conn, stmtLock, rowsLock, cursor, inTx, engChanges,
                   engRowid, autocommit, isolation_level, ops>>

\* The Option is emptied, the handle and the guard, temporaries of the
\* statement, are dropped.
CcTake(t) ==
    /\ task[t].pc = "cc_take"
    /\ conn' = take_handle(conn)
    /\ inTx' = (inTx /\ conn')
    /\ connLock' = NoTask
    /\ task' = [task EXCEPT ![t].pc = "cc_stmt"]
    /\ UNCHANGED <<gil, caller, stmtLock, rowsLock, cursor, engChanges, engRowid,
                   autocommit, isolation_level, ops>>

\* s.lock().await.take();
CcStmt(t) ==
    LET c == task[t].cur IN
    /\ task[t].pc = "cc_stmt"
    /\ mutex_free(stmtLock[c])
    /\ cursor' = [cursor EXCEPT ![c].stmt = NoStmt]
    /\ task' = [task EXCEPT ![t].pc = "cc_rows"]
    /\ UNCHANGED <<gil, caller, conn, connLock, stmtLock, rowsLock, inTx, engChanges,
                   engRowid, autocommit, isolation_level, ops>>

\* r.lock().await.take(); Ok(())
CcRows(t) ==
    LET c == task[t].cur IN
    /\ task[t].pc = "cc_rows"
    /\ mutex_free(rowsLock[c])
    /\ cursor' = [cursor EXCEPT ![c].rows = NoRows]
    /\ task' = [task EXCEPT ![t] = Finish(t, "ok")]
    /\ UNCHANGED <<gil, caller, conn, connLock, stmtLock, rowsLock, inTx, engChanges,
                   engRowid, autocommit, isolation_level, ops>>


\* ------------------------------------------------------------ the fetches
\* Rows::next(): the number of the row read, 0 for None.
rows_next(rows) == IF rows.pos < rows.n THEN rows.pos + 1 ELSE 0

\* The outcome of a fetch: the result set and the flag as it leaves them,
\* the rows collected, the number of Rows::next() calls made, and whether
\* one of them failed.  failAt = k makes the k-th call fail, 0 none.
FetchStart(rows, done) ==
    [rows |-> rows, done |-> done, data |-> <<>>, reads |-> 0, err |-> FALSE]

fetchone_result(rows, done, failAt) ==
    LET st == FetchStart(rows, done)
        r == rows_next(rows)
    IN  IF rows = NoRows THEN st
        ELSE IF failAt = 1 THEN [st EXCEPT !.reads = 1, !.err = TRUE]
        ELSE IF r # 0
             THEN [st EXCEPT !.rows.pos = @ + 1, !.data = <<r>>, !.reads = 1]
             ELSE [st EXCEPT !.reads = 1]

\* for _ in 0..size { match rows.next().await? { Some(r) => push,
\*                                               None => { done = true; break } } }
RECURSIVE fetchmany_loop(_, _, _)
fetchmany_loop(st, k, failAt) ==
    IF k = 0 THEN st
    ELSE IF st.reads + 1 = failAt THEN [st EXCEPT !.reads = @ + 1, !.err = TRUE]
    ELSE LET r == rows_next(st.rows) IN
         IF r # 0
         THEN fetchmany_loop([st EXCEPT !.rows.pos = @ + 1, !.data = Append(@, r),
                                        !.reads = @ + 1], k - 1, failAt)
         ELSE [st EXCEPT !.done = TRUE, !.reads = @ + 1]

fetchmany_result(rows, done, size, failAt) ==
    IF rows # NoRows /\ ~done
    THEN fetchmany_loop(FetchStart(rows, done), size, failAt)
    ELSE FetchStart(rows, done)

\* while let Some(r) = rows.next().await? { push }
RECURSIVE fetchall_loop(_, _)
fetchall_loop(st, failAt) ==
    IF st.reads + 1 = failAt THEN [st EXCEPT !.reads = @ + 1, !.err = TRUE]
    ELSE LET r == rows_next(st.rows) IN
         IF r # 0
         THEN fetchall_loop([st EXCEPT !.rows.pos = @ + 1, !.data = Append(@, r),
                                       !.reads = @ + 1], failAt)
         ELSE [st EXCEPT !.reads = @ + 1]

fetchall_result(rows, done, failAt) ==
    IF rows # NoRows
    THEN fetchall_loop(FetchStart(rows, done), failAt)
    ELSE FetchStart(rows, done)

FailPoints == 0..(MaxRows + 1)

\* let mut guard = rows_arc.lock().await;
FetchLock(t) ==
    LET c == task[t].cur IN
    /\ task[t].pc \in {"fo_lock", "fm_lock", "fa_lock"}
    /\ mutex_free(rowsLock[c])
    /\ rowsLock' = [rowsLock EXCEPT ![c] = t]
    /\ task' = [task EXCEPT ![t].pc =
                   CASE task[t].pc = "fo_lock" -> "fo_run"
                     [] task[t].pc = "fm_lock" -> "fm_run"
                     [] task[t].pc = "fa_lock" -> "fa_run"]
    /\ UNCHANGED <<gil, caller, conn, connLock, stmtLock, cursor, inTx, engChanges,
                   engRowid, autocommit, isolation_level, ops>>

\* The body of a fetch under the rows guard, the guard's release and the
\* result handed to the caller: the rows read, or the engine's error.
FetchBody(t, out) ==
    LET c == task[t].cur IN
    /\ cursor' = [cursor EXCEPT ![c].rows = out.rows, ![c].done = out.done]
    /\ rowsLock' = [rowsLock EXCEPT ![c] = guard_dropped(t, out.err)]
    /\ task' = [task EXCEPT ![t] =
                   [Finish(t, IF out.err THEN "engine_error" ELSE "ok") EXCEPT
                       !.data = IF out.err THEN <<>> ELSE out.data,
                       !.reads = out.reads]]
    /\ UNCHANGED <<gil, caller, conn, connLock, stmtLock, inTx, engChanges, engRowid,
                   autocommit, isolation_level, ops>>

FoRun(t) ==
    /\ task[t].pc = "fo_run"
    /\ \E f \in FailPoints :
          FetchBody(t, fetchone_result(cursor[task[t].cur].rows,
                                       cursor[task[t].cur].done, f))

FmRun(t) ==
    /\ task[t].pc = "fm_run"
    /\ \E f \in FailPoints :
          FetchBody(t, fetchmany_result(cursor[task[t].cur].rows,
                                        cursor[task[t].cur].done, task[t].size, f))

FaRun(t) ==
    /\ task[t].pc = "fa_run"
    /\ \E f \in FailPoints :
          FetchBody(t, fetchall_result(cursor[task[t].cur].rows,
                                       cursor[task[t].cur].done, f))

\* ------------------------------------------------- the interpreter lock
\* #[getter] fn description(&self, py): the caller holds the interpreter
\* lock for the whole call.
CallDescription(w) ==
    /\ caller.pc = "python"
    /\ gil = NoTask
    /\ \E c \in w.cursors :
          caller' = [pc |-> "description", cur |-> c]
    /\ gil' = MainThread
    /\ UNCHANGED <<conn, connLock, stmtLock, rowsLock, cursor, task, inTx,
                   engChanges, engRowid, autocommit, isolation_level, ops>>

\* let guard = self.stmt.blocking_lock(); the thread sleeps, with the
\* interpreter lock, until the mutex is free.  The tuple is built and the
\* guard dropped before the getter returns.
DescriptionRun ==
    /\ caller.pc = "description"
    /\ mutex_free(stmtLock[caller.cur])
    /\ caller' = InPython
    /\ gil' = NoTask
    /\ UNCHANGED <<conn, connLock, stmtLock, rowsLock, cursor, task, inTx,
                   engChanges, engRowid, autocommit, isolation_level, ops>>

\* #[getter] fn in_transaction(&self)
CallInTransaction ==
    /\ caller.pc = "python"
    /\ gil = NoTask
    /\ caller' = [pc |-> "in_transaction", cur |-> 0]
    /\ gil' = MainThread
    /\ UNCHANGED <<conn, connLock, stmtLock, rowsLock, cursor, task, inTx,
                   engChanges, engRowid, autocommit, isolation_level, ops>>

\* let guard = self.conn.blocking_lock();
InTransactionRun ==
    /\ caller.pc = "in_transaction"
    /\ mutex_free(connLock)
    /\ caller' = InPython
    /\ gil' = NoTask
    /\ UNCHANGED <<conn, connLock, stmtLock, rowsLock, cursor, task, inTx,
                   engChanges, engRowid, autocommit, isolation_level, ops>>

\* The body of a fetch up to its Python::with_gil.  An engine error leaves
\* the block by ? and drops the guard.  fetchmany and fetchall, and
\* fetchone with a row in hand, drop(guard) before they ask for the
\* interpreter lock; fetchone without a row asks for it with the guard
\* still alive (keeps).
FetchRead(t, out, keeps) ==
    LET c == task[t].cur IN
    /\ cursor' = [cursor EXCEPT ![c].rows = out.rows, ![c].done = out.done]
    /\ IF out.err
       THEN /\ rowsLock' = [rowsLock EXCEPT ![c] = guard_dropped(t, TRUE)]
            /\ task' = [task EXCEPT ![t] =
                           [Finish(t, "engine_error") EXCEPT !.reads = out.reads]]
       ELSE /\ rowsLock' = [rowsLock EXCEPT ![c] = IF keeps THEN t ELSE NoTask]
            /\ task' = [task EXCEPT ![t].pc = "with_gil",
                                    ![t].data = out.data,
                                    ![t].reads = out.reads]
    /\ UNCHANGED <<conn, connLock, stmtLock, inTx, engChanges, engRowid,
                   autocommit, isolation_level, ops, gil, caller>>

FoRead(t) ==
    /\ task[t].pc = "fo_run"
    /\ \E f \in FailPoints :
          LET out == fetchone_result(cursor[task[t].cur].rows,
                                     cursor[task[t].cur].done, f)
          IN  FetchRead(t, out, out.data = <<>>)

FmRead(t) ==
    /\ task[t].pc = "fm_run"
    /\ \E f \in FailPoints :
          FetchRead(t, fetchmany_result(cursor[task[t].cur].rows,
                                        cursor[task[t].cur].done, task[t].size, f),
                    FALSE)

FaRead(t) ==
    /\ task[t].pc = "fa_run"
    /\ \E f \in FailPoints :
          FetchRead(t, fetchall_result(cursor[task[t].cur].rows,
                                       cursor[task[t].cur].done, f),
                    FALSE)

\* Python::with_gil(|py| ...): the worker thread sleeps until the
\* interpreter lock is free, builds the result and gives the lock back.
\* The block ends here, and with it a guard that is still alive.
WithGil(t) ==
    LET c == task[t].cur IN
    /\ task[t].pc = "with_gil"
    /\ gil = NoTask
    /\ rowsLock' = [rowsLock EXCEPT ![c] = IF @ = t THEN NoTask ELSE @]
    /\ task' = [task EXCEPT ![t] =
                   [Finish(t, "ok") EXCEPT !.data = task[t].data,
                                           !.reads = task[t].reads]]
    /\ UNCHANGED <<conn, connLock, stmtLock, cursor, inTx, engChanges,
                   engRowid, autocommit, isolation_level, ops, gil, caller>>

\* ---------------------------------------------------------- specification
\* The steps of the operations in flight.
\* What connect() does with the database: the call it makes to open it
\* ("none" when it makes none) and its result.  ok: the engine opens it.
\*   is_remote_path => open_remote_internal
\*   sync_url given => new_synced_database, and with an encryption key
\*                     Err("encryption is not supported for synced
\*                     databases") before builder.build()
\*   otherwise      => new_local, builder.build()
connect_outcome(cfg, ok) ==
    IF cfg.remote
    THEN [call |-> "open_remote", res |-> IF ok THEN "ok" ELSE "engine_error"]
    ELSE IF cfg.sync_url
    THEN IF cfg.encryption_key
         THEN [call |-> "none", res |-> "config_error"]
         ELSE [call |-> "build_synced", res |-> IF ok THEN "ok" ELSE "engine_error"]
    ELSE [call |-> "build_local", res |-> IF ok THEN "ok" ELSE "engine_error"]

\* The future of connect().
CnRun(t) ==
    /\ task[t].pc = "cn_run"
    /\ \E ok \in BOOLEAN :
          LET out == connect_outcome(task[t].cfg, ok) IN
          task' = [task EXCEPT ![t] =
                      [Finish(t, out.res) EXCEPT !.issued = out.call,
                                                 !.cfg = task[t].cfg]]
    /\ UNCHANGED <<gil, caller, conn, connLock, stmtLock, rowsLock, cursor, inTx,
                   engChanges, engRowid, autocommit, isolation_level, ops>>

\* The steps of execute and executemany.
ExecuteSteps(t) ==
    \/ EaLock(t)
    \/ EaConn(t)
    \/ EaStmt(t)
    \/ EaRun(t)
    \/ StoreRc(t)
    \/ StoreRid(t)

\* The steps of executescript, commit and rollback.
ScriptSteps(t) ==
    \/ ConnLock(t)
    \/ EsRun(t)
    \/ CmRun(t)

\* The steps of Connection.close (after ConnLock) and Cursor.close.
CloseSteps(t) ==
    \/ ClRun(t)
    \/ CcConn(t)
    \/ CcTake(t)
    \/ CcStmt(t)
    \/ CcRows(t)

\* The steps of fetchone, fetchmany and fetchall.
FetchSteps(t) ==
    \/ FetchLock(t)
    \/ FoRun(t)
    \/ FmRun(t)
    \/ FaRun(t)

Step(t) ==
    \/ ExecuteSteps(t)
    \/ ScriptSteps(t)
    \/ AxRun(t)
    \/ CloseSteps(t)
    \/ FetchSteps(t)
    \/ CnRun(t)

\* Every operation, with every argument, by overlapping callers.  Its
\* behaviours include those of the specifications below, which restrict
\* the callers so that the reachable states can be enumerated.
WAll == Workload(Cursors, SqlIds, 0..MaxParamSets, 0..MaxSize, NumTasks, MaxOps)

Next ==
    \E t \in Tasks :
        \/ CallExecute(t, WAll)
        \/ CallExecutemany(t, WAll)
        \/ CallExecutescript(t, WAll)
        \/ CallCommit(t, WAll)
        \/ CallRollback(t, WAll)
        \/ CallAexit(t, WAll)
        \/ CallConnClose(t, WAll)
        \/ CallCursorClose(t, WAll)
        \/ CallFetchone(t, WAll)
        \/ CallFetchmany(t, WAll)
        \/ CallFetchall(t, WAll)
        \/ CallConnect(t, WAll)
        \/ CallExecuteParams(t, WAll)
        \/ CallExecutemanyParams(t, WAll)
        \/ Step(t)

Spec == Init /\ [][Next]_vars

\* Overlapping callers of the operations that take the connection guard,
\* on a connection opened with the autocommit mode left at the sentinel.
WConc == Workload(Cursors, {SqlInsert, SqlSelect}, {}, {}, NumTasks, MaxOps)
WConcMany == Workload(Cursors, {SqlInsert}, {MaxParamSets}, {}, NumTasks, MaxOps)

NextConc ==
    \E t \in Tasks :
        \/ CallExecute(t, WConc)
        \/ CallExecutemany(t, WConcMany)
        \/ CallExecutescript(t, WConc)
        \/ CallCommit(t, WConc)
        \/ CallRollback(t, WConc)
        \/ CallAexit(t, WConc)
        \/ CallConnClose(t, WConc)
        \/ CallCursorClose(t, WConc)
        \/ ExecuteSteps(t)
        \/ ScriptSteps(t)
        \/ AxRun(t)
        \/ CloseSteps(t)

SpecConc ==
    Connected({LEGACY_TRANSACTION_CONTROL}, IsolationLevels) /\ [][NextConc]_vars

\* One caller that awaits each operation, every statement text, every
\* autocommit mode and isolation level; scripts, commits and rollbacks
\* bring the engine into and out of transactions.
WPolicy == Workload({1}, SqlIds, {}, {}, 1, MaxSeqOps)

NextPolicy ==
    \E t \in Tasks :
        \/ CallExecute(t, WPolicy)
        \/ CallExecutescript(t, WPolicy)
        \/ CallCommit(t, WPolicy)
        \/ CallRollback(t, WPolicy)
        \/ ExecuteSteps(t)
        \/ ScriptSteps(t)

SpecPolicy == Init /\ [][NextPolicy]_vars

\* The connection as connect() opens it by default: isolation level
\* DEFERRED, autocommit mode left at the sentinel.
DefaultConnection == Connected({LEGACY_TRANSACTION_CONTROL}, {"DEFERRED"})

\* One caller that awaits each operation and closes the connection or a
\* cursor somewhere among the others.
WClose == Workload(Cursors, {SqlInsert, SqlSelect}, {}, {}, 1, MaxSeqOps)
WCloseMany == Workload(Cursors, {SqlInsert}, {0, 1}, {}, 1, MaxSeqOps)

NextClose ==
    \E t \in Tasks :
        \/ CallExecute(t, WClose)
        \/ CallExecutemany(t, WCloseMany)
        \/ CallExecutescript(t, WClose)
        \/ CallCommit(t, WClose)
        \/ CallRollback(t, WClose)
        \/ CallConnClose(t, WClose)
        \/ CallCursorClose(t, WClose)
        \/ ExecuteSteps(t)
        \/ ScriptSteps(t)
        \/ CloseSteps(t)

SpecClose == DefaultConnection /\ [][NextClose]_vars

\* One caller that awaits each operation and leaves the connection's scope
\* (async with) somewhere among executes, scripts and a close.
WScope == Workload(Cursors, {SqlInsert}, {}, {}, 1, MaxSeqOps)

NextScope ==
    \E t \in Tasks :
        \/ CallExecute(t, WScope)
        \/ CallExecutescript(t, WScope)
        \/ CallAexit(t, WScope)
        \/ CallConnClose(t, WScope)
        \/ ExecuteSteps(t)
        \/ ConnLock(t)
        \/ EsRun(t)
        \/ AxRun(t)
        \/ ClRun(t)

SpecScope == DefaultConnection /\ [][NextScope]_vars

\* Overlapping executes, fetches and closes of the connection.
WGuards == Workload(Cursors, {SqlInsert, SqlSelect}, {}, {}, NumTasks, MaxOps)

NextGuards ==
    \E t \in Tasks :
        \/ CallExecute(t, WGuards)
        \/ CallFetchone(t, WGuards)
        \/ CallFetchmany(t, WGuards)
        \/ CallFetchall(t, WGuards)
        \/ CallConnClose(t, WGuards)
        \/ ExecuteSteps(t)
        \/ FetchSteps(t)
        \/ ConnLock(t)
        \/ ClRun(t)

SpecGuards == DefaultConnection /\ [][NextGuards]_vars

\* Overlapping executes and fetches, and the getters called while they
\* run.  A fetch is taken in two steps here, the second where it asks for
\* the interpreter lock; while that lock is free, as it is in the other
\* specifications, the two steps are the one step of FetchBody.
WGil == Workload(Cursors, {SqlInsert, SqlSelect}, {}, {}, NumTasks, MaxOps)

NextGil ==
    \/ CallDescription(WGil)
    \/ DescriptionRun
    \/ CallInTransaction
    \/ InTransactionRun
    \/ \E t \in Tasks :
          \/ CallExecute(t, WGil)
          \/ CallFetchone(t, WGil)
          \/ CallFetchmany(t, WGil)
          \/ CallFetchall(t, WGil)
          \/ ExecuteSteps(t)
          \/ FetchLock(t)
          \/ FoRead(t)
          \/ FmRead(t)
          \/ FaRead(t)
          \/ WithGil(t)

SpecGil == DefaultConnection /\ [][NextGil]_vars

\* One caller that awaits each operation: executes and fetches.
WFetch == Workload(Cursors, {SqlInsert, SqlSelect}, {}, 0..MaxSize, 1, MaxSeqOps)

NextFetch ==
    \E t \in Tasks :
        \/ CallExecute(t, WFetch)
        \/ CallFetchone(t, WFetch)
        \/ CallFetchmany(t, WFetch)
        \/ CallFetchall(t, WFetch)
        \/ ExecuteSteps(t)
        \/ FetchSteps(t)

SpecFetch == DefaultConnection /\ [][NextFetch]_vars

\* One caller that awaits each execute and executemany.
WMany == Workload(Cursors, {SqlInsert, SqlSelect}, 0..MaxParamSets, {}, 1, MaxSeqOps)
WManyExecute == Workload(Cursors, {SqlInsert}, {}, {}, 1, MaxSeqOps)

NextMany ==
    \E t \in Tasks :
        \/ CallExecute(t, WManyExecute)
        \/ CallExecutemany(t, WMany)
        \/ ExecuteSteps(t)

SpecMany == DefaultConnection /\ [][NextMany]_vars

\* Overlapping execute and executemany calls.
WCounters == Workload(Cursors, {SqlInsert, SqlSelect}, 0..MaxParamSets, {}, NumTasks, MaxOps)

NextCounters ==
    \E t \in Tasks :
        \/ CallExecute(t, WCounters)
        \/ CallExecutemany(t, WCounters)
        \/ ExecuteSteps(t)

SpecCounters == DefaultConnection /\ [][NextCounters]_vars

\* One caller that awaits each operation: connects with every combination
\* of target, sync URL and encryption key, and executes with parameters
\* that may be neither a list nor a tuple.
WParams == Workload(Cursors, {SqlInsert}, 0..MaxParamSets, {}, 1, MaxSeqOps)

NextParams ==
    \E t \in Tasks :
        \/ CallConnect(t, WParams)
        \/ CallExecuteParams(t, WParams)
        \/ CallExecutemanyParams(t, WParams)
        \/ CnRun(t)
        \/ ExecuteSteps(t)

SpecParams == DefaultConnection /\ [][NextParams]_vars

\* ------------------------------------------------------------------ claims
\* A task is between taking the connection guard and dropping it: every
\* call it makes on the engine's handle lies there.
InEngineSection(t) ==
    task[t].pc \in {"ea_conn", "ea_stmt", "ea_rows", "es_run", "cm_run",
                    "ax_run", "cl_run", "cc_take"}

\* A task has asked for the connection guard and does not hold it yet.
AwaitsConnection(t) ==
    task[t].pc \in {"ea_lock", "es_lock", "cm_lock", "ax_lock", "cl_lock",
                    "cc_conn"}

\* C1: operations that reach the engine through one connection (from its
\* cursors or the connection itself, close included) are mutually
\* exclusive: at no time are two tasks inside their engine-call sections.
C1_MutualExclusion ==
    \A t, u \in Tasks :
        InEngineSection(t) /\ InEngineSection(u) => t = u

\* Contention happens: a task of one cursor is inside its section while a
\* task of another cursor waits for the connection.
C1_Witness ==
    \E t, u \in Tasks :
        /\ InEngineSection(t)
        /\ AwaitsConnection(u)
        /\ task[t].op \in {"execute", "executemany"}
        /\ task[u].op \in {"execute", "executemany"}
        /\ task[t].cur # task[u].cur

\* The step of task t in which execute_async issues BEGIN.
BeginIssued(t) == task[t].pc = "ea_conn" /\ task'[t].began

\* The statement of task t is recognised as data-modifying.
IsDmlTask(t) == stmt_is_dml(sql_text(task[t].sql))

\* C2: on a connection opened with the autocommit mode left at the
\* sentinel and an isolation level set, BEGIN is issued exactly when a
\* data-modifying statement finds the engine in autocommit state, by the
\* task holding the connection guard, and a BEGIN that succeeds leaves
\* the engine inside a transaction: one BEGIN per transaction.
C2_OneBeginPerTransaction ==
    [][ \A t \in Tasks :
           /\ task'[t].began /\ ~task[t].began => BeginIssued(t)
           /\ (isolation_level # "None" /\ conn /\ task[t].pc = "ea_conn"
               /\ task'[t] # task[t])
              => /\ task'[t].began <=> (IsDmlTask(t) /\ ~inTx)
                 /\ BeginIssued(t) => connLock = t
                 /\ (BeginIssued(t) /\ task'[t].pc = "ea_stmt") => inTx'
      ]_vars

\* Two cursors raced with data-modifying statements: the first issued
\* BEGIN, the second found the transaction open and issued none.
C2_Witness ==
    \E t, u \in Tasks :
        /\ task[t].cur # task[u].cur
        /\ task[t].op = "execute" /\ task[t].began
        /\ task[t].pc \in {"store_rc", "store_rid"}
        /\ task[u].pc \in {"ea_stmt", "ea_rows"}
        /\ task[u].op = "execute" /\ ~task[u].began /\ IsDmlTask(u)
        /\ inTx

\* The text, with leading and trailing white space removed and folded to
\* upper case, begins with one of the four keywords.
BeginsWithDmlKeyword(sql) ==
    LET s == to_uppercase(trim(sql)) IN
    \E kw \in {KwInsert, KwUpdate, KwDelete, KwReplace} :
        /\ Len(s) >= Len(kw)
        /\ \A j \in 1..Len(kw) : s[j] = kw[j]

\* C3: a statement whose trimmed, case-folded text does not begin with
\* INSERT, UPDATE, DELETE or REPLACE never has an implicit BEGIN issued
\* for it, whatever the autocommit mode, the isolation level and the
\* engine's transaction state.
C3_NoBeginForNonDml ==
    [][ \A t \in Tasks :
           BeginIssued(t) => BeginsWithDmlKeyword(sql_text(task[t].sql))
      ]_vars

\* A statement that does not begin with a keyword was prepared with no
\* BEGIN although the policy computes autocommit false and the engine is
\* in autocommit state; the statement itself changes data.
C3_Witness ==
    \E t \in Tasks :
        /\ task[t].pc = "ea_stmt"
        /\ ~BeginsWithDmlKeyword(sql_text(task[t].sql))
        /\ SqlTexts[task[t].sql].writes
        /\ ~task[t].began
        /\ ~determine_autocommit(autocommit, isolation_level)
        /\ ~inTx

\* C4: once the connection is closed, the steps of an execute on a cursor
\* obtained before the close make no engine call and change nothing of
\* any cursor (statement slot, result-set slot, rowcount, lastrowid), and
\* the execute ends with the connection-closed condition.
C4_ExecuteAfterClose ==
    [][ \A t \in Tasks :
           (~conn /\ task[t].op = "execute" /\ Running(t) /\ task'[t] # task[t])
           => /\ cursor' = cursor
              /\ inTx' = inTx /\ engChanges' = engChanges /\ engRowid' = engRowid
              /\ task'[t].stmt = NoStmt /\ ~task'[t].began
              /\ task'[t].pc \in {"ea_conn", "done"}
              /\ task'[t].pc = "done" => task'[t].res = "closed"
      ]_vars

\* An execute ended with the closed condition on a cursor whose slots an
\* earlier execute had filled.
C4_Witness ==
    \E t \in Tasks :
        /\ ~conn
        /\ task[t].pc = "done" /\ task[t].op = "execute"
        /\ task[t].res = "closed"
        /\ cursor[task[t].cur].stmt # NoStmt
        /\ cursor[task[t].cur].rows # NoRows

\* The operations that need the physical connection.
NeedsConnection(op) ==
    op \in {"execute", "executemany", "executescript", "commit", "rollback"}

\* C5 (as stated): once the physical handle has been released, every
\* further execute, executemany, executescript, commit and rollback ends
\* with the closed condition; none completes successfully.
C5_AllFailAfterClose ==
    [][ \A t \in Tasks :
           (~conn /\ NeedsConnection(task[t].op) /\ Running(t)
            /\ task'[t].pc = "done")
           => task'[t].res = "closed"
      ]_vars

\* What a caller collects who calls fetchmany(n), n >= 1, until a batch
\* comes back empty, no read failing.
RECURSIVE DrainByFetchmany(_, _, _)
DrainByFetchmany(rows, done, n) ==
    LET out == fetchmany_result(rows, done, n, 0) IN
    IF out.data = <<>> THEN <<>>
    ELSE out.data \o DrainByFetchmany(out.rows, out.done, n)

\* C6 (as stated): for a cursor holding a query result, every batch size
\* n >= 1 and every history of the cursor, fetchmany(n) repeated until an
\* empty batch yields the rows, in order, that one fetchall yields from
\* the same position.
C6_PaginationEqualsDrain ==
    \A c \in Cursors :
        cursor[c].rows # NoRows
        => \A n \in 1..MaxSize :
              DrainByFetchmany(cursor[c].rows, cursor[c].done, n)
              = fetchall_result(cursor[c].rows, cursor[c].done, 0).data

\* The result set of cursor c is marked exhausted and no execute has run
\* on the cursor since its end was read.
Exhausted(c) ==
    /\ cursor[c].done
    /\ cursor[c].rows # NoRows
    /\ cursor[c].rows.pos = cursor[c].rows.n

\* C7 (as stated): once the result set is marked exhausted, every
\* fetchone, fetchmany and fetchall returns an empty result and makes no
\* Rows.next call.
C7_NoReadAfterExhaustion ==
    [][ \A t \in Tasks :
           (task[t].pc \in {"fo_run", "fm_run", "fa_run"}
            /\ Exhausted(task[t].cur) /\ task'[t].pc = "done")
           => /\ task'[t].res = "ok"
              /\ task'[t].data = <<>>
              /\ task'[t].reads = 0
      ]_vars

\* C8 (as stated): an execute that runs its statement leaves the cursor
\* with the new statement in its statement slot, the new result set (or
\* none) in its result-set slot and the exhaustion flag cleared, so that
\* a fetchmany(1) on a new non-empty result returns its first row.
C8_ExecuteResetsCursor ==
    [][ \A t \in Tasks :
           (task[t].pc = "ea_rows" /\ task'[t].pc = "store_rc")
           => LET c == task[t].cur
                  after == cursor'[c]
              IN  /\ after.stmt = task[t].stmt
                  /\ after.rows # NoRows
                     => /\ after.rows.stmt = task[t].stmt.id
                        /\ after.rows.pos = 0
                  /\ ~after.done
                  /\ (after.rows # NoRows /\ after.rows.n > 0)
                     => fetchmany_result(after.rows, after.done, 1, 0).data = <<1>>
      ]_vars

\* The sum of the change counts read back after the statements of a log.
RECURSIVE SumOfChanges(_)
SumOfChanges(log) ==
    IF log = <<>> THEN 0
    ELSE SumOfChanges(SubSeq(log, 1, Len(log) - 1)) + log[Len(log)].c

\* The row id read back after the last statement of a log, 0 for none.
LastRowId(log) == IF log = <<>> THEN 0 ELSE log[Len(log)].r

\* C9: for a caller that awaits each operation, executemany runs its
\* statements one at a time in the order of the parameter list, and when
\* it succeeds the cursor's rowcount is the sum of the change counts read
\* back after each statement and its lastrowid the row id read back after
\* the last one.
C9_ExecutemanyCounters ==
    [][ \A t \in Tasks :
           (task[t].op = "executemany" /\ Running(t) /\ task'[t] # task[t])
           => /\ task'[t].pc # "done"
                 => /\ Len(task'[t].log) = task'[t].i
                    /\ Len(task'[t].log) \in {Len(task[t].log), Len(task[t].log) + 1}
                    /\ \A j \in 1..Len(task'[t].log) :
                          task'[t].log[j].p = task[t].plist[j]
              /\ (task'[t].pc = "done" /\ task'[t].res = "ok")
                 => /\ Len(task[t].log) = Len(task[t].plist)
                    /\ cursor'[task[t].cur].rowcount = SumOfChanges(task[t].log)
                    /\ cursor'[task[t].cur].lastrowid = LastRowId(task[t].log)
      ]_vars

\* An executemany over two parameter sets stored its rowcount: both
\* statements changed rows and were given different row ids.
C9_Witness ==
    \E t \in Tasks :
        /\ task[t].op = "executemany" /\ task[t].pc = "store_rid"
        /\ Len(task[t].log) = 2
        /\ task[t].log[1].c > 0 /\ task[t].log[2].c > 0
        /\ task[t].log[1].r # task[t].log[2].r
        /\ cursor[task[t].cur].rowcount = task[t].log[1].c + task[t].log[2].c

\* C10 (as stated): when the executes issued on one cursor have all
\* completed, the cursor's rowcount and lastrowid are those read back
\* after the statement that ran last.
C10_CountersOfLastStatement ==
    \A c \in Cursors :
        (\A t \in Tasks : /\ task[t].pc = "done" /\ task[t].op = "execute"
                          /\ task[t].cur = c /\ task[t].res = "ok")
        => /\ cursor[c].rowcount = cursor[c].ran.c
           /\ cursor[c].lastrowid = cursor[c].ran.r

\* C11: commit() and rollback() send COMMIT / ROLLBACK to the engine if
\* and only if the connection is open and the engine is not in autocommit
\* state; otherwise they send nothing, change nothing and succeed.
C11_CommitOnlyInTransaction ==
    [][ \A t \in Tasks :
           (task[t].pc = "cm_run" /\ task'[t].pc = "done")
           => IF conn /\ inTx
              THEN /\ task[t].op = "commit" => task'[t].issued = "COMMIT"
                   /\ task[t].op = "rollback" => task'[t].issued = "ROLLBACK"
                   /\ task'[t].res = "ok" => ~inTx'
              ELSE /\ task'[t].issued = "none"
                   /\ task'[t].res = "ok"
                   /\ inTx' = inTx /\ conn' = conn
                   /\ engChanges' = engChanges /\ engRowid' = engRowid
      ]_vars

\* A commit found the connection open with no transaction and ended as a
\* no-op, after an earlier operation of the same caller.
C11_Witness ==
    \E t \in Tasks :
        /\ task[t].pc = "done" /\ task[t].op = "commit"
        /\ task[t].res = "ok" /\ task[t].issued = "none"
        /\ conn /\ ~inTx
        /\ ops >= 2

\* C12: leaving the scope with a transaction open sends exactly one
\* statement, ROLLBACK if an error is propagating and COMMIT otherwise;
\* with no transaction open or the connection closed it sends nothing; in
\* every case, the statement failing included, the exit does not raise
\* and does not suppress the propagating error.
C12_ScopeExit ==
    [][ \A t \in Tasks :
           (task[t].pc = "ax_run" /\ task'[t].pc = "done")
           => /\ task'[t].res = "ok"
              /\ ~task'[t].suppress
              /\ IF conn /\ inTx
                 THEN /\ task[t].is_error => task'[t].issued = "ROLLBACK"
                      /\ ~task[t].is_error => task'[t].issued = "COMMIT"
                 ELSE /\ task'[t].issued = "none"
                      /\ inTx' = inTx
      ]_vars

\* The scope was left with an error propagating and a transaction open:
\* the ROLLBACK was sent, failed (the transaction is still open), and the
\* exit completed without raising.
C12_Witness ==
    \E t \in Tasks :
        /\ task[t].pc = "done" /\ task[t].op = "aexit"
        /\ task[t].issued = "ROLLBACK"
        /\ task[t].res = "ok"
        /\ conn /\ inTx

\* C13: an executemany that fails at a parameter set after the first
\* reports the failure and leaves every cursor's rowcount and lastrowid
\* as they were before the call: no step before the stores changes them,
\* an operation that ends before its stores ends in failure, and the
\* stores are reached only when every parameter set has run.
C13_NoPartialCounters ==
    [][ \A t \in Tasks :
           (task[t].op = "executemany" /\ Running(t) /\ task'[t] # task[t])
           => /\ task[t].pc \in {"ea_lock", "ea_conn", "ea_stmt", "ea_rows"}
                 => /\ \A c \in Cursors :
                          /\ cursor'[c].rowcount = cursor[c].rowcount
                          /\ cursor'[c].lastrowid = cursor[c].lastrowid
                    /\ task'[t].pc = "done"
                       => task'[t].res \in {"engine_error", "closed"}
              /\ task[t].pc = "store_rc" => task[t].i = Len(task[t].plist)
      ]_vars

\* An executemany failed after its first statement had changed rows; the
\* cursor's rowcount is not the count accumulated so far.
C13_Witness ==
    \E t \in Tasks :
        /\ task[t].pc = "done" /\ task[t].op = "executemany"
        /\ task[t].res = "engine_error"
        /\ task[t].i >= 1 /\ task[t].tc > 0
        /\ cursor[task[t].cur].rowcount # task[t].tc

\* The caller of task t passed a parameter object that is neither a list
\* nor a tuple.
HasBadParams(tk) == \E j \in 1..Len(tk.plist) : tk.plist[j] = NotListOrTuple

\* C14: configuration and parameter errors are rejected before any engine
\* call.  A connect to a local target with a sync URL and an encryption
\* key fails without opening a database.  An execute or executemany with
\* a parameter object (for executemany: any one set, at any position)
\* that is neither a list nor a tuple fails at the call: it never asks
\* for the connection, runs no statement, the valid sets before the bad
\* one included, and changes nothing of the cursors or the engine.
C14_RejectedBeforeEngine ==
    [][ \A t \in Tasks :
           /\ (task[t].pc = "cn_run" /\ task'[t].pc = "done"
               /\ ~task[t].cfg.remote /\ task[t].cfg.sync_url
               /\ task[t].cfg.encryption_key)
              => /\ task'[t].res = "config_error"
                 /\ task'[t].issued = "none"
           /\ HasBadParams(task'[t])
              => /\ task'[t].pc = "done"
                 /\ task'[t].res = "param_error"
                 /\ task'[t].log = <<>>
                 /\ connLock' # t
                 /\ task'[t] # task[t]
                    => /\ cursor' = cursor /\ connLock' = connLock
                       /\ inTx' = inTx /\ engChanges' = engChanges
                       /\ engRowid' = engRowid
      ]_vars

\* An executemany was rejected for its second parameter set; the first,
\* a valid one, was not run.
C14_Witness ==
    \E t \in Tasks :
        /\ task[t].pc = "done" /\ task[t].op = "executemany"
        /\ task[t].res = "param_error"
        /\ Len(task[t].plist) >= 2
        /\ task[t].plist[1] # NotListOrTuple
        /\ task[t].plist[2] = NotListOrTuple
        /\ cursor[task[t].cur].stmt = NoStmt

\* should_autocommit(mode, isolation_level): for the sentinel, true iff
\* the isolation level is unset; otherwise the boolean value of the mode.
ShouldAutocommit(mode, isolation) ==
    IF mode = LEGACY_TRANSACTION_CONTROL THEN isolation = "None" ELSE mode # 0

\* The connection is one that connect() makes when given this mode.
OpenedWith(mode) == autocommit = connect_autocommit(mode, isolation_level)

C16_CloseIdempotent ==
    [][ /\ ~conn => ~conn'
        /\ \A t \in Tasks :
              (task[t].pc = "cl_run" /\ task'[t].pc = "done")
              => /\ ~conn'
                 /\ task'[t].res = "ok"
                 /\ conn => task'[t].issued = "drop"
                 /\ ~conn => /\ task'[t].issued = "none"
                             /\ cursor' = cursor /\ inTx' = inTx
                             /\ engChanges' = engChanges
                             /\ engRowid' = engRowid
      ]_vars

\* A close found the connection already closed and succeeded.
C16_Witness ==
    \E t \in Tasks :
        /\ task[t].pc = "done" /\ task[t].op = "conn_close"
        /\ task[t].res = "ok" /\ task[t].issued = "none"
        /\ ~conn

\* Task t holds none of the guards.
HoldsNothing(t) ==
    /\ connLock # t
    /\ \A c \in Cursors : stmtLock[c] # t /\ rowsLock[c] # t

\* C17: every guard an operation acquired is released on every exit path
\* (closed handle, failed BEGIN, failed prepare, failed execute or query,
\* failed row read, success) before its result is delivered: a task that
\* runs no operation holds no guard.
C17_GuardsReleased ==
    \A t \in Tasks : ~Running(t) => HoldsNothing(t)

\* A fetch ended with the engine's error for a row read while another
\* operation is in flight.
C17_Witness ==
    \E t, u \in Tasks :
        /\ task[t].pc = "done" /\ task[t].res = "engine_error"
        /\ task[t].op \in {"fetchone", "fetchmany", "fetchall"}
        /\ task[t].reads > 0
        /\ Running(u)

\* C18: after a successful execute the cursor's result-set slot is
\* present if and only if the prepared statement declares at least one
\* column.  A statement with columns leaves its own new result set in the
\* slot, at its first row; a statement with none leaves the slot empty,
\* so that fetchone, fetchmany and fetchall return nothing and read
\* nothing.
C18_RowsSlotIffColumns ==
    [][ \A t \in Tasks :
           (task[t].op = "execute" /\ task[t].pc = "ea_rows"
            /\ task'[t].pc = "store_rc")
           => LET after == cursor'[task[t].cur]
                  cols == SqlTexts[task[t].sql].columns
              IN  /\ after.rows # NoRows <=> cols >= 1
                  /\ cols >= 1
                     => /\ after.rows.stmt = task[t].stmt.id
                        /\ after.rows.stmt # cursor[task[t].cur].rows.stmt
                        /\ after.rows.pos = 0
                  /\ cols = 0
                     => /\ fetchone_result(after.rows, after.done, 0).data = <<>>
                        /\ fetchone_result(after.rows, after.done, 0).reads = 0
                        /\ \A n \in 0..MaxSize :
                              /\ fetchmany_result(after.rows, after.done, n, 0).data = <<>>
                              /\ fetchmany_result(after.rows, after.done, n, 0).reads = 0
                        /\ fetchall_result(after.rows, after.done, 0).data = <<>>
                        /\ fetchall_result(after.rows, after.done, 0).reads = 0
      ]_vars

\* A statement with no columns ran on a cursor whose earlier result set
\* had been drained by fetchmany: the slot is empty.
C18_Witness ==
    \E t \in Tasks :
        /\ task[t].op = "execute" /\ task[t].pc = "store_rc"
        /\ SqlTexts[task[t].sql].columns = 0
        /\ cursor[task[t].cur].stmt = task[t].stmt
        /\ cursor[task[t].cur].rows = NoRows
        /\ cursor[task[t].cur].done

\* C19 (as stated): a fetchone moves the result set forward by exactly
\* one row when it returns one, and a fetchone whose read finds no row
\* returns the absent value and sets the cursor's exhaustion flag, so
\* that a following fetchmany reads nothing from the engine.
C19_FetchoneMarksExhausted ==
    [][ \A t \in Tasks :
           (task[t].pc = "fo_run" /\ task'[t].pc = "done"
            /\ task'[t].res = "ok" /\ cursor[task[t].cur].rows # NoRows)
           => LET c == task[t].cur IN
              /\ task'[t].reads = 1
              /\ task'[t].data # <<>>
                 => cursor'[c].rows.pos = cursor[c].rows.pos + 1
              /\ task'[t].data = <<>>
                 => /\ cursor'[c].rows.pos = cursor[c].rows.pos
                    /\ cursor'[c].done
                    /\ \A n \in 0..MaxSize :
                          fetchmany_result(cursor'[c].rows, cursor'[c].done,
                                           n, 0).reads = 0
      ]_vars

\* The threads that can wait: the futures and the calling thread.
Threads == Tasks \cup {MainThread}

\* The thread that holds what thread a sleeps on, NoTask when a is not
\* asleep: a mutex another thread owns, or the interpreter lock.
WaitsFor(a) ==
    IF a = MainThread
    THEN CASE caller.pc = "description" -> stmtLock[caller.cur]
           [] caller.pc = "in_transaction" -> connLock
           [] OTHER -> NoTask
    ELSE CASE task[a].pc = "ea_lock" -> connLock
           [] task[a].pc = "ea_stmt" -> stmtLock[task[a].cur]
           [] task[a].pc = "ea_rows" -> rowsLock[task[a].cur]
           [] task[a].pc \in {"fo_lock", "fm_lock", "fa_lock"} ->
                  rowsLock[task[a].cur]
           [] task[a].pc = "with_gil" -> gil
           [] OTHER -> NoTask

\* Thread b is reached from thread a along at most n waits.
RECURSIVE WaitPath(_, _, _)
WaitPath(a, b, n) ==
    /\ n > 0
    /\ WaitsFor(a) # NoTask
    /\ \/ WaitsFor(a) = b
       \/ WaitPath(WaitsFor(a), b, n - 1)

CircularWait == \E a \in Threads : WaitPath(a, a, Cardinality(Threads))

\* C20 (as stated): with the interpreter lock held by the calling thread
\* inside description and in_transaction and taken by the fetches to
\* build their results, no reachable state has a circular wait among the
\* interpreter lock and the connection, statement and result-set guards:
\* no started operation is left waiting for ever.
C20_NoCircularWait == ~CircularWait

\* C21 (as stated): Cursor.close releases only the prepared statement
\* and the result set of its own cursor.  No step of it closes the
\* physical connection or touches another cursor, so the connection and
\* the other cursors can go on to execute, commit and roll back.
C21_CursorCloseKeepsConnection ==
    [][ \A t \in Tasks :
           (task[t].op = "cursor_close" /\ Running(t) /\ task'[t] # task[t])
           => /\ conn' = conn
              /\ inTx' = inTx
              /\ \A d \in Cursors \ {task[t].cur} : cursor'[d] = cursor[d]
      ]_vars

\* No operation is in progress on cursor c.
Quiescent(c) == \A t \in Tasks : Running(t) => task[t].cur # c

\* C22 (as stated): whenever no operation is in progress on a cursor, a
\* result set in its result-set slot was produced by the statement in its
\* prepared-statement slot, also after an execute that failed: what
\* description names and what the fetches return belong to one statement.
C22_RowsBelongToStatement ==
    \A c \in Cursors :
        (Quiescent(c) /\ cursor[c].rows # NoRows)
        => cursor[c].rows.stmt = cursor[c].stmt.id

====
